---- MODULE Spec2Model ----
(***************************************************************************)
(* Model of src/client_udp.py: the UDP receive loop of the tracked-object  *)
(* client, its frame parser parse_and_validate and calculate_crc16.        *)
(*                                                                         *)
(* Frames are sequences of bytes 0..255.  The source indexes from 0; the   *)
(* model keeps the source's indices and reads through At(data, i).         *)
(* Coordinates reach 2^32 - 1, beyond the integers of the model checker,   *)
(* so an unbounded Python int that holds a coordinate is kept as its       *)
(* base-256 digits, least significant first, without high zero digits      *)
(* (0 is <<>>, 1 is <<1>>, 2^32 - 1 is <<255, 255, 255, 255>>).            *)
(***************************************************************************)
EXTENDS Integers, Sequences, FiniteSets, TLC

\* ------------------------------------------------------------- bounds
\* Most complete records in a generated datagram.
MaxRecords == 2
\* Declared counts tried are 0..MaxDeclared and 255.
MaxDeclared == 3

\* -------------------------------------------------- program constants
BUFFER_SIZE == 1024
CRC_INIT == 65535
polynomial == 4129
TOP_BIT == 32768
MASK16 == 65535
MIN_LEN == 4
HEADER == 251
RECORD_SIZE == 14
TRAILER_LEN == 2

NoVal == -1

\* ------------------------------------------------------ bit operators
RECURSIVE BitXor(_, _)
\* Python's a ^ b on naturals.
BitXor(a, b) ==
  IF a = 0 THEN b
  ELSE IF b = 0 THEN a
  ELSE (((a % 2) + (b % 2)) % 2) + 2 * BitXor(a \div 2, b \div 2)

RECURSIVE BitOr(_, _)
\* Python's a | b on naturals.
BitOr(a, b) ==
  IF a = 0 THEN b
  ELSE IF b = 0 THEN a
  ELSE (IF (a % 2) = 1 \/ (b % 2) = 1 THEN 1 ELSE 0) + 2 * BitOr(a \div 2, b \div 2)

\* Python's crc & 0x8000.
AndTopBit(crc) == ((crc \div TOP_BIT) % 2) * TOP_BIT

\* Python's crc & 0xFFFF.
AndMask16(crc) == crc % (MASK16 + 1)

\* ------------------------------------------------------ calculate_crc16
RECURSIVE CrcBitsNoPoly(_, _)
\* The inner loop with the XOR of line 24 left out.
CrcBitsNoPoly(crc, n) ==
  IF n = 0 THEN crc ELSE CrcBitsNoPoly(AndMask16(crc * 2), n - 1)

RECURSIVE CrcBits(_, _)
\* The inner loop: n more rounds of shift and conditional XOR.
CrcBits(crc, n) ==
  IF n = 0 THEN crc
  ELSE LET shifted == IF AndTopBit(crc) # 0
                      THEN BitXor(crc * 2, polynomial)
                      ELSE crc * 2
       IN CrcBits(AndMask16(shifted), n - 1)

\* One round of the outer loop: XOR the byte into the high byte, then 8 bits.
CrcByte(crc, byte) == CrcBits(BitXor(crc, byte * 256), 8)

RECURSIVE CrcRange(_, _, _, _)
\* The register after bytes lo..hi, entered with crc.  The range is taken by
\* halves, the first half's register being a 16-bit value before the second
\* starts, which keeps the evaluation depth logarithmic in the length.
CrcRange(crc, bytes, lo, hi) ==
  IF lo > hi THEN crc
  ELSE IF lo = hi THEN CrcByte(crc, bytes[lo])
  ELSE LET mid == (lo + hi) \div 2
           first == CrcRange(crc, bytes, lo, mid)
       IN IF first \in 0..MASK16 THEN CrcRange(first, bytes, mid + 1, hi) ELSE NoVal

calculate_crc16(bytes) == CrcRange(CRC_INIT, bytes, 1, Len(bytes))

\* ------------------------------------------------------- Python values
\* A Python int that may exceed 2^31: its base-256 digits, least significant
\* first, no high zero digit.
IntOfByte(b) == IF b = 0 THEN <<>> ELSE <<b>>

\* Python's n << bits for bits a multiple of 8.
ShiftLeft(n, bits) ==
  IF n = <<>> THEN <<>> ELSE [k \in 1..(bits \div 8) |-> 0] \o n

Digit(n, k) == IF k <= Len(n) THEN n[k] ELSE 0

\* Python's a | b on such ints.
IntOr(a, b) ==
  [k \in 1..(IF Len(a) > Len(b) THEN Len(a) ELSE Len(b)) |->
     BitOr(Digit(a, k), Digit(b, k))]

\* Python's data[i] on bytes: a negative index counts from the end, and an
\* index outside the frame raises IndexError.
ValidIndex(d, i) == -Len(d) <= i /\ i < Len(d)
Norm(d, i) == IF i < 0 THEN i + Len(d) ELSE i
At(d, i) == d[Norm(d, i) + 1]

\* Python's data[:-2].
ButLast2(d) == SubSeq(d, 1, Len(d) - TRAILER_LEN)

None == [kind |-> "None"]
Unset == [kind |-> "unset"]

\* ------------------------------------------- parse_and_validate, pieces
\* Line 45 testing for the 2 CRC bytes only.
TooShortAlt(d) == Len(d) < TRAILER_LEN
\* Line 45: the length test.
TooShort(d) == Len(d) < MIN_LEN

\* Line 50: the received CRC, big-endian.
ReceivedCrc(d) == BitOr(At(d, -2) * 256, At(d, -1))

\* Line 60 with the test left out.
HeaderAny(h) == TRUE
\* Line 60: the header test.
HeaderOk(h) == h = HEADER

\* Line 96 without the - 2 that excludes the CRC.
IncompleteNoTrailer(d, off) == off + RECORD_SIZE > Len(d)
\* Line 96 with >= for >.
IncompleteOffByOne(d, off) == off + RECORD_SIZE >= Len(d) - TRAILER_LEN
\* Line 96: the record at off does not fit before the CRC.
Incomplete(d, off) == off + RECORD_SIZE > Len(d) - TRAILER_LEN

\* Lines 104-109 with the shifts in the opposite order.
BigEndian32LowFirst(d, off) ==
  IntOr(IntOr(IntOr(ShiftLeft(IntOfByte(At(d, off + 3)), 24),
                    ShiftLeft(IntOfByte(At(d, off + 2)), 16)),
              ShiftLeft(IntOfByte(At(d, off + 1)), 8)),
        IntOfByte(At(d, off)))
\* Lines 104-109: four bytes, most significant first.
BigEndian32(d, off) ==
  IntOr(IntOr(IntOr(ShiftLeft(IntOfByte(At(d, off)), 24),
                    ShiftLeft(IntOfByte(At(d, off + 1)), 16)),
              ShiftLeft(IntOfByte(At(d, off + 2)), 8)),
        IntOfByte(At(d, off + 3)))

\* Lines 100-127: the record at off.
DecodeRecord(d, off) ==
  [CLS |-> At(d, off), ID_TRACK |-> At(d, off + 1),
   X |-> BigEndian32(d, off + 2),
   Y |-> BigEndian32(d, off + 6),
   Z |-> BigEndian32(d, off + 10)]

RecordIndices(off) == off..(off + RECORD_SIZE - 1)

\* ---------------------------------------------------------- the sender
\* The emitter is not part of the client; frames are built as the wire format
\* of the client's comments describes them.
BE4(n) == <<Digit(n, 4), Digit(n, 3), Digit(n, 2), Digit(n, 1)>>

EncodeRecord(o) == <<o.CLS, o.ID_TRACK>> \o BE4(o.X) \o BE4(o.Y) \o BE4(o.Z)

RECURSIVE EncodeAll(_)
EncodeAll(objs) ==
  IF objs = <<>> THEN <<>> ELSE EncodeRecord(Head(objs)) \o EncodeAll(Tail(objs))

SampleObjects ==
  << [CLS |-> 2, ID_TRACK |-> 3, X |-> <<1>>, Y |-> <<2>>, Z |-> <<3>>],
     [CLS |-> 255, ID_TRACK |-> 0, X |-> <<255, 255, 255, 255>>, Y |-> <<>>,
      Z |-> <<0, 0, 0, 128>>],
     [CLS |-> 0, ID_TRACK |-> 255, X |-> <<4, 3, 2, 1>>, Y |-> <<0, 0, 1>>,
      Z |-> <<0, 255>>] >>

NSamples == Len(SampleObjects)

\* Object lists of 0..MaxRecords objects: the samples in rotation.
ObjLists ==
  { [k \in 1..n |-> SampleObjects[((s + k - 2) % NSamples) + 1]] :
      n \in 0..MaxRecords, s \in 1..NSamples }

DeclCounts == (0..MaxDeclared) \cup {255}
PadSizes == {0, 1, RECORD_SIZE - 1}
Headers == {HEADER, 0}

CrcBytes(crc) == <<crc \div 256, crc % 256>>

\* A frame: header, declared count, records, pad bytes of an incomplete
\* record, and the CRC of all that (good) or another value (not good).
BuildFrame(h, d, objs, pad, good) ==
  LET body == <<h, d>> \o EncodeAll(objs) \o [k \in 1..pad |-> 90]
      crc == calculate_crc16(body)
  IN body \o CrcBytes(IF good THEN crc ELSE (crc + 1) % (MASK16 + 1))

\* Frame f with bit p (0 = lowest bit of byte 0) inverted.
FlipBit(f, p) ==
  [f EXCEPT ![(p \div 8) + 1] = BitXor(@, 2 ^ (p % 8))]

RECURSIVE SeqsUpTo(_, _)
SeqsUpTo(S, n) ==
  IF n = 0 THEN {<<>>}
  ELSE LET shorter == SeqsUpTo(S, n - 1)
       IN shorter \cup {Append(q, x) : q \in shorter, x \in S}

\* Datagrams below the minimum length.
ShortDatagrams ==
  { [bytes |-> q, kind |-> "raw", objs |-> <<>>] :
      q \in SeqsUpTo(Headers, MIN_LEN - 1) }

BuiltDatagrams ==
  { [bytes |-> BuildFrame(h, d, objs, pad, good),
     kind |-> IF good THEN "built" ELSE "badcrc", objs |-> objs] :
      h \in Headers, d \in DeclCounts, objs \in ObjLists, pad \in PadSizes,
      good \in BOOLEAN }

\* Well-formed frames with one bit of the part before the trailer inverted.
WellFormed == { BuildFrame(HEADER, Len(objs), objs, 0, TRUE) : objs \in ObjLists }

FlippedDatagrams ==
  UNION { { [bytes |-> FlipBit(w, p), kind |-> "flipped", objs |-> <<>>] :
              p \in 0..(8 * (Len(w) - TRAILER_LEN) - 1) } : w \in WellFormed }

Datagrams == ShortDatagrams \cup BuiltDatagrams \cup FlippedDatagrams

\* The datagrams of the history specification.
FewDatagrams ==
  ShortDatagrams \cup
  { [bytes |-> BuildFrame(h, d, <<>>, pad, good),
     kind |-> IF good THEN "built" ELSE "badcrc", objs |-> <<>>] :
      h \in Headers, d \in DeclCounts, pad \in PadSizes, good \in BOOLEAN }

\* --------------------------------------------------------------- state
VARIABLES
  pc,              \* where the program is
  sock,            \* "open" | "closed"
  signal,          \* KeyboardInterrupt was raised
  data,            \* the datagram being parsed
  origin,          \* how the sender built it
  reads,           \* indices of data read so far in this call
  recReads,        \* indices of data read as record bytes in this call
  received_crc, calculated_crc, crc_valid, header, nb_objects,
  offset, objects, i,
  warned,          \* line 97 printed the incomplete-record warning
  outcome,         \* which report the call printed
  ret,             \* the value the call returned
  lastFail         \* history: outcome and value of the last failed call

locals == <<data, origin, reads, recReads, received_crc, calculated_crc,
            crc_valid, header, nb_objects, offset, objects, i, warned,
            outcome, ret>>

vars == <<pc, sock, signal, locals, lastFail>>

NoOrigin == [kind |-> "none", objs |-> <<>>]
NoFail == [outcome |-> "none", ret |-> Unset]

FreshLocals ==
  /\ data = <<>> /\ origin = NoOrigin
  /\ reads = {} /\ recReads = {}
  /\ received_crc = NoVal /\ calculated_crc = NoVal /\ crc_valid = FALSE
  /\ header = NoVal /\ nb_objects = NoVal
  /\ offset = NoVal /\ objects = <<>> /\ i = NoVal
  /\ warned = FALSE /\ outcome = "none" /\ ret = Unset

Init ==
  /\ pc = "recv" /\ sock = "open" /\ signal = FALSE
  /\ FreshLocals
  /\ lastFail = NoFail

ResetLocals ==
  /\ data' = <<>> /\ origin' = NoOrigin
  /\ reads' = {} /\ recReads' = {}
  /\ received_crc' = NoVal /\ calculated_crc' = NoVal /\ crc_valid' = FALSE
  /\ header' = NoVal /\ nb_objects' = NoVal
  /\ offset' = NoVal /\ objects' = <<>> /\ i' = NoVal
  /\ warned' = FALSE /\ outcome' = "none" /\ ret' = Unset

\* --------------------------------------------------------- the handler
\* Line 150: the handler's clause catches every Exception subclass.
Catches(exc) == exc \in {"IndexError", "TypeError", "ValueError"}

\* An exception raised inside the try of parse_and_validate: lines 150-153
\* report it and return None; one the clause does not catch leaves the
\* function and the receive loop, whose finally (line 185) closes the socket.
Raise(exc) ==
  IF Catches(exc)
  THEN /\ outcome' = "Exception" /\ ret' = None /\ pc' = "ret"
       /\ UNCHANGED <<sock, signal>>
  ELSE /\ outcome' = "Escaped" /\ ret' = Unset /\ pc' = "closed"
       /\ sock' = "closed" /\ UNCHANGED signal

\* ------------------------------------------------------------- actions
\* Lines 179-180 and 41-43: a datagram of D arrives and the call starts.
Recv(D) ==
  /\ pc = "recv"
  /\ \E m \in D :
       /\ Len(m.bytes) <= BUFFER_SIZE
       /\ data' = m.bytes
       /\ origin' = [kind |-> m.kind, objs |-> m.objs]
  /\ pc' = "check_len"
  /\ UNCHANGED <<sock, signal, reads, recReads, received_crc, calculated_crc,
                 crc_valid, header, nb_objects, offset, objects, i, warned,
                 outcome, ret, lastFail>>

\* Lines 45-47.
CheckLen ==
  /\ pc = "check_len"
  /\ IF TooShort(data)
     THEN /\ outcome' = "TooShort" /\ ret' = None /\ pc' = "ret"
     ELSE /\ pc' = "crc" /\ UNCHANGED <<outcome, ret>>
  /\ UNCHANGED <<sock, signal, data, origin, reads, recReads, received_crc,
                 calculated_crc, crc_valid, header, nb_objects, offset,
                 objects, i, warned, lastFail>>

\* Lines 50-56: the received CRC, the computed CRC, their comparison.
ComputeCrc ==
  /\ pc = "crc"
  /\ IF ValidIndex(data, -2) /\ ValidIndex(data, -1)
     THEN /\ received_crc' = ReceivedCrc(data)
          /\ calculated_crc' = calculate_crc16(ButLast2(data))
          /\ crc_valid' = (received_crc' = calculated_crc')
          /\ reads' = reads \cup (0..(Len(data) - 1))
          /\ pc' = "header"
          /\ UNCHANGED <<sock, signal, outcome, ret>>
     ELSE /\ Raise("IndexError")
          /\ UNCHANGED <<received_crc, calculated_crc, crc_valid, reads>>
  /\ UNCHANGED <<data, origin, recReads, header, nb_objects, offset, objects,
                 i, warned, lastFail>>

\* Lines 59-65: the header test, then the declared count.
CheckHeader ==
  /\ pc = "header"
  /\ IF ~ValidIndex(data, 0)
     THEN /\ Raise("IndexError")
          /\ UNCHANGED <<header, nb_objects, reads>>
     ELSE /\ header' = At(data, 0)
          /\ IF ~HeaderOk(header')
             THEN /\ outcome' = "HeaderMismatch" /\ ret' = None /\ pc' = "ret"
                  /\ reads' = reads \cup {0}
                  /\ UNCHANGED <<sock, signal, nb_objects>>
             ELSE IF ~ValidIndex(data, 1)
             THEN /\ Raise("IndexError")
                  /\ reads' = reads \cup {0}
                  /\ UNCHANGED nb_objects
             ELSE /\ nb_objects' = At(data, 1)
                  /\ reads' = reads \cup {0, 1}
                  /\ pc' = "gate"
                  /\ UNCHANGED <<sock, signal, outcome, ret>>
  /\ UNCHANGED <<data, origin, recReads, received_crc, calculated_crc,
                 crc_valid, offset, objects, i, warned, lastFail>>

\* Lines 78-88: the CRC verdict; a valid frame enters the record loop.
CrcGate ==
  /\ pc = "gate"
  /\ IF crc_valid
     THEN /\ offset' = 2 /\ objects' = <<>> /\ i' = 0 /\ pc' = "loop"
          /\ UNCHANGED <<outcome, ret>>
     ELSE /\ outcome' = "ChecksumInvalid" /\ ret' = None /\ pc' = "ret"
          /\ UNCHANGED <<offset, objects, i>>
  /\ UNCHANGED <<sock, signal, data, origin, reads, recReads, received_crc,
                 calculated_crc, crc_valid, header, nb_objects, warned,
                 lastFail>>

\* Lines 94-137: one pass of the for loop, or its end.
RecordLoop ==
  /\ pc = "loop"
  /\ IF i >= nb_objects
     THEN /\ pc' = "return"
          /\ UNCHANGED <<sock, signal, reads, recReads, offset, objects, i,
                         warned, outcome, ret>>
     ELSE IF Incomplete(data, offset)
     THEN /\ warned' = TRUE /\ pc' = "return"
          /\ UNCHANGED <<sock, signal, reads, recReads, offset, objects, i,
                         outcome, ret>>
     ELSE IF \E k \in RecordIndices(offset) : ~ValidIndex(data, k)
     THEN /\ Raise("IndexError")
          /\ reads' = reads \cup {k \in RecordIndices(offset) : ValidIndex(data, k)}
          /\ recReads' = recReads \cup {k \in RecordIndices(offset) : ValidIndex(data, k)}
          /\ UNCHANGED <<offset, objects, i, warned>>
     ELSE /\ objects' = Append(objects, DecodeRecord(data, offset))
          /\ reads' = reads \cup RecordIndices(offset)
          /\ recReads' = recReads \cup RecordIndices(offset)
          /\ offset' = offset + RECORD_SIZE
          /\ i' = i + 1
          /\ pc' = "loop"
          /\ UNCHANGED <<sock, signal, warned, outcome, ret>>
  /\ UNCHANGED <<data, origin, received_crc, calculated_crc, crc_valid,
                 header, nb_objects, lastFail>>

\* Lines 139-148: the dictionary returned.
Return ==
  /\ pc = "return"
  /\ ret' = [kind |-> "dict", header |-> header, nb_objects |-> nb_objects,
             crc_received |-> received_crc, crc_calculated |-> calculated_crc,
             crc_valid |-> crc_valid, objects |-> objects]
  /\ outcome' = "Parsed"
  /\ pc' = "ret"
  /\ UNCHANGED <<sock, signal, data, origin, reads, recReads, received_crc,
                 calculated_crc, crc_valid, header, nb_objects, offset,
                 objects, i, warned, lastFail>>

\* Line 178: a loop that ran its body once only would leave the try and
\* close the socket.
RunOnce ==
  /\ pc = "ret"
  /\ pc' = "closed" /\ sock' = "closed"
  /\ ResetLocals
  /\ UNCHANGED <<signal, lastFail>>

\* Lines 178-180: the value returned is dropped and the loop receives again.
LoopBack ==
  /\ pc = "ret"
  /\ pc' = "recv"
  /\ ResetLocals
  /\ UNCHANGED <<sock, signal, lastFail>>

Failures == {"TooShort", "HeaderMismatch", "ChecksumInvalid"}

\* LoopBack, with the history of the last failed call kept.
LoopBackNoting ==
  /\ pc = "ret"
  /\ pc' = "recv"
  /\ lastFail' = IF outcome \in Failures
                 THEN [outcome |-> outcome, ret |-> ret] ELSE lastFail
  /\ ResetLocals
  /\ UNCHANGED <<sock, signal>>

\* Lines 182-185: KeyboardInterrupt, at any point, ends the loop; the finally
\* closes the socket.
Interrupt ==
  /\ pc # "closed"
  /\ signal' = TRUE /\ sock' = "closed" /\ pc' = "closed"
  /\ ResetLocals
  /\ lastFail' = NoFail

Parse == CheckLen \/ ComputeCrc \/ CheckHeader \/ CrcGate \/ RecordLoop \/ Return

Next == Recv(Datagrams) \/ Parse \/ LoopBack \/ Interrupt

Spec == Init /\ [][Next]_vars

\* The history specification: fewer datagrams, the last failure remembered.
NextHist == Recv(FewDatagrams) \/ Parse \/ LoopBackNoting \/ Interrupt

SpecHist == Init /\ [][NextHist]_vars

\* ------------------------------------------------------- claim helpers
Returned == pc = "ret"
LongEnough == Len(data) >= MIN_LEN
CrcDone == calculated_crc # NoVal
CrcMismatch == LongEnough /\ CrcDone /\ received_crc # calculated_crc
Min(a, b) == IF a < b THEN a ELSE b
Declared == At(data, 1)
Complete == (Len(data) - MIN_LEN) \div RECORD_SIZE
InLoop == pc \in {"loop", "return"} \/ (pc = "ret" /\ outcome = "Parsed")
IsU32(v) == Len(v) <= 4 /\ \A k \in 1..Len(v) : v[k] \in 0..255
SameReturn(a, b) == a = b

\* C1: for every frame of length >= 4 whose received CRC differs from the
\* computed CRC, the call ends with the checksum-invalid outcome and never
\* with the header-mismatch outcome, whatever byte 0 is.
C1_HeaderOnlyAfterCrc ==
  (Returned /\ CrcMismatch) => outcome = "ChecksumInvalid"

\* C2: for every frame of length >= 4 whose CRC trailer does not match, the
\* call returns a packet value, not None, with its checksum-valid field
\* false, both checksum fields set and an empty object list; no record is
\* decoded.
C2_BadCrcReturnsPacket ==
  (Returned /\ CrcMismatch) =>
    /\ ret.kind = "dict"
    /\ ret.crc_valid = FALSE
    /\ ret.crc_received = received_crc
    /\ ret.crc_calculated = calculated_crc
    /\ ret.objects = <<>>
    /\ recReads = {}

\* C3: a frame of length 0..3 ends with the too-short outcome with no byte
\* of the frame read, no header check and no CRC computation.
C3_ShortFrameUnread ==
  (pc # "recv" /\ pc # "closed" /\ Len(data) < MIN_LEN) =>
    /\ reads = {} /\ recReads = {}
    /\ received_crc = NoVal /\ calculated_crc = NoVal
    /\ header = NoVal /\ nb_objects = NoVal
    /\ pc \in {"check_len", "ret"}
    /\ (Returned => outcome = "TooShort" /\ ret = None)

C3_Witness ==
  Returned /\ Len(data) = MIN_LEN - 1 /\ outcome = "TooShort" /\ reads = {}

C5_RecordReadsInBounds ==
  /\ \A k \in recReads : k >= 2 /\ k < Len(data) - TRAILER_LEN
  /\ outcome \notin {"Exception", "Escaped"}
  /\ InLoop => offset = 2 + RECORD_SIZE * Len(objects)
  /\ InLoop => recReads = 2..(offset - 1)

C5_Witness ==
  /\ pc = "loop" /\ nb_objects = 255 /\ Len(objects) = 2
  /\ Len(data) - TRAILER_LEN - offset = RECORD_SIZE - 1

\* C6: a frame of length >= 4 whose byte 0 is not 0xFB and whose trailer
\* equals the computed CRC ends with the header-mismatch outcome, not with
\* the checksum-invalid outcome and not with a decoded packet.
C6_ValidCrcBadHeader ==
  (Returned /\ LongEnough /\ At(data, 0) # HEADER /\ received_crc = calculated_crc) =>
    /\ outcome = "HeaderMismatch"
    /\ ret.kind # "dict"
    /\ objects = <<>>

C6_Witness ==
  /\ Returned /\ LongEnough /\ At(data, 0) # HEADER /\ crc_valid
  /\ outcome = "HeaderMismatch"

\* C7: the values returned for a too-short frame, for a header mismatch and
\* for a checksum-invalid frame are distinguishable from one another.
C7_FailuresDistinguishable ==
  (Returned /\ outcome \in Failures /\ lastFail.outcome \in Failures
     /\ lastFail.outcome # outcome) =>
    ~SameReturn(ret, lastFail.ret)

\* C8: no datagram ends the receive loop: every call returns to the loop,
\* which receives again, and only the interrupt closes the socket.
C8_OnlyInterruptEndsLoop ==
  [][/\ sock' = "closed" => signal'
     /\ outcome' # "Escaped"
     /\ (Returned /\ ~signal') => (pc' = "recv" /\ sock' = "open")
     /\ (pc \notin {"recv", "ret", "closed"} /\ ~signal') =>
          pc' \in {"crc", "header", "gate", "loop", "return", "ret"}]_vars

C8_Witness ==
  Returned /\ sock = "open" /\ ~signal /\ warned /\ nb_objects = 255

C10_RecordRoundTrip ==
  (origin.kind = "built" /\ InLoop) =>
    \A k \in 1..Len(objects) :
      /\ objects[k] = origin.objs[k]
      /\ objects[k].CLS \in 0..255 /\ objects[k].ID_TRACK \in 0..255
      /\ IsU32(objects[k].X) /\ IsU32(objects[k].Y) /\ IsU32(objects[k].Z)

C10_Witness ==
  /\ origin.kind = "built" /\ pc = "loop" /\ Len(objects) = 2
  /\ objects[1] = SampleObjects[2] /\ objects[2] = SampleObjects[3]
  /\ objects[1].X = <<255, 255, 255, 255>>
====
